---- MODULE Spec2Model ----
(***************************************************************************)
(* Model of the JNI marshalling layer of lance-jni (src/ffi.rs): the       *)
(* JNIEnvExt extractors over managed references and the JniTestHelper      *)
(* boundary entry points.                                                  *)
(*                                                                         *)
(* A managed object is a tuple <<kind, ...>>.  Every extractor is an        *)
(* operator that returns [res, log]: res is the Rust Result and log is the *)
(* sequence of managed methods that were actually invoked, in order.       *)
(***************************************************************************)
EXTENDS Integers, Sequences, FiniteSets, TLC

\* Longest managed list handed to an extractor.
MaxLen == 2
\* Number of bytes of direct-buffer memory.
MemSize == 3

(***************************************************************************)
(* Fixed-width integers.  A jint (i32) is a TLA+ integer.  A jlong (i64)   *)
(* is <<h, l2, l1, l0>>, its value being h*2^48 + l2*2^32 + l1*2^16 + l0   *)
(* with h in -2^15 .. 2^15-1 and the other digits in 0 .. 2^16-1.  A u64   *)
(* or usize (64-bit target) is the same with h in 0 .. 2^16-1.             *)
(***************************************************************************)
Base == 2^16
Half == 2^15
I32Max == 2^30 + (2^30 - 1)
I32Min == -I32Max - 1

I64Min == <<-Half, 0, 0, 0>>
I64Max == <<Half - 1, Base - 1, Base - 1, Base - 1>>
I64MinusOne == <<-1, Base - 1, Base - 1, Base - 1>>
I64Lit(n) == <<0, 0, 0, n>>
U64Zero == <<0, 0, 0, 0>>
U64Pow63 == <<Half, 0, 0, 0>>

IsNegI64(w) == w[1] < 0

\* a >= b on digit sequences (most significant digit first)
RECURSIVE DigitsGeq(_, _)
DigitsGeq(a, b) ==
  IF a = <<>> THEN TRUE
  ELSE IF Head(a) # Head(b) THEN Head(a) > Head(b)
  ELSE DigitsGeq(Tail(a), Tail(b))

\* Integer.longValue(): the widening (sign-extending) conversion int -> long
IntToLong(v) ==
  LET lo == v % Base
      hi == (v - lo) \div Base
  IN  <<(IF v < 0 THEN -1 ELSE 0), (IF v < 0 THEN Base - 1 ELSE 0), hi % Base, lo>>

\* Long.intValue(): the narrowing conversion long -> int keeps the low 32 bits
LongToInt(w) ==
  IF w[3] >= Half THEN (w[3] - Base) * Base + w[4] ELSE w[3] * Base + w[4]

(***************************************************************************)
(* Results and errors                                                      *)
(***************************************************************************)
Ok(v) == [ok |-> TRUE, val |-> v]
Err(e) == [ok |-> FALSE, err |-> e]
None == [some |-> FALSE]
Some(v) == [some |-> TRUE, val |-> v]

\* crate::Error built by `?` from a jni::errors::Error
\* pending: the class of the exception the failure leaves pending in the JVM
JniError(detail) == [kind |-> "MethodInvocation", detail |-> detail, pending |-> "none"]
\* jni::errors::Error::JavaException: a managed exception of class cls was raised
\* by the call and is still pending
JavaException(cls) == [kind |-> "MethodInvocation", detail |-> "JavaException", pending |-> cls]
\* crate::Error built by `?` from a Utf8Error
Utf8Error == [kind |-> "StringDecoding", detail |-> "Utf8Error", pending |-> "none"]
\* Error::io_error(..) built from a failed TryFrom<i32>
ConversionError(e) ==
  [kind |-> "io_error", detail |-> "Failed to convert from i32 to rust type",
   pending |-> "none"]

\* `?`: an extraction step that failed ends the extraction with that error
Step(res, log) == [res |-> res, log |-> log]

(***************************************************************************)
(* The JNIEnv's pending exception                                          *)
(***************************************************************************)
\* exception the class of the exception pending in the JNIEnv (while native
\*           code runs) or thrown into the managed frame (once an entry point
\*           has returned), or NoException
VARIABLE exception

NoException == "none"

(***************************************************************************)
(* Managed objects                                                         *)
(***************************************************************************)
Null == <<"null">>
JInteger(v) == <<"Integer", v>>
JLong(w) == <<"Long", w>>
\* valid: whether the string's modified UTF-8 bytes are valid UTF-8
JString(text, valid) == <<"String", text, valid>>
JList(elems) == <<"List", elems>>
\* Optional.empty() is the Optional whose value is null
JOptional(inner) == <<"Optional", inner>>
JByteBuffer(addr, cap, lim, direct) == <<"ByteBuffer", addr, cap, lim, direct>>
\* an object with one accessor `name` of JNI signature sig that returns ret
JHolder(name, sig, ret) == <<"Holder", name, sig, ret>>
\* a float[] and a String[]
JFloatArray(elems) == <<"float[]", elems>>
JObjectArray(elems) == <<"String[]", elems>>

KindOf(obj) == obj[1]
\* the int, long, element sequence or inner object of a box, list or Optional
ValOf(obj) == obj[2]
IsNull(obj) == KindOf(obj) = "null"

\* does the class of obj have method name with JNI signature sig
HasMethod(obj, name, sig) ==
  CASE KindOf(obj) \in {"Integer", "Long"} ->
         <<name, sig>> \in {<<"intValue", "()I">>, <<"longValue", "()J">>}
    [] KindOf(obj) = "Optional" ->
         <<name, sig>> \in {<<"isPresent", "()Z">>, <<"get", "()Ljava/lang/Object;">>}
    [] KindOf(obj) = "Holder" -> name = obj[2] /\ sig = obj[3]
    [] OTHER -> FALSE

\* the value the managed method returns
Invoke(obj, name) ==
  CASE KindOf(obj) = "Integer" /\ name = "intValue" -> ValOf(obj)
    [] KindOf(obj) = "Integer" /\ name = "longValue" -> IntToLong(ValOf(obj))
    [] KindOf(obj) = "Long" /\ name = "intValue" -> LongToInt(ValOf(obj))
    [] KindOf(obj) = "Long" /\ name = "longValue" -> ValOf(obj)
    [] KindOf(obj) = "Optional" /\ name = "isPresent" -> ~IsNull(ValOf(obj))
    [] KindOf(obj) = "Optional" /\ name = "get" -> ValOf(obj)
    [] KindOf(obj) = "Holder" -> obj[4]

\* the exception check that follows a checked JNI call: with an exception
\* pending the call fails with JavaException and the exception stays pending
exception_check == exception # NoException

\* JNIEnv::call_method(obj, name, sig, &[]) followed by `?`: the null check,
\* then the method lookup (a checked JNI call), then the invocation
call_method(obj, name, sig) ==
  IF IsNull(obj) THEN Step(Err(JniError("NullPtr")), <<>>)
  ELSE IF exception_check THEN Step(Err(JavaException(exception)), <<>>)
  ELSE IF ~HasMethod(obj, name, sig)
       THEN Step(Err(JavaException("java.lang.NoSuchMethodError")), <<>>)
  ELSE IF KindOf(obj) = "Optional" /\ name = "get" /\ IsNull(ValOf(obj))
       THEN Step(Err(JavaException("java.util.NoSuchElementException")), <<name>>)
  ELSE Step(Ok(Invoke(obj, name)), <<name>>)

\* JNIEnv::get_string(&jstr)?: the JavaStr of a java.lang.String
get_string(obj) ==
  IF IsNull(obj) THEN Err(JniError("NullPtr"))
  ELSE IF KindOf(obj) # "String" THEN Err(JniError("WrongObjectType"))
  ELSE Ok(obj)

\* JavaStr::to_str()?: the string's bytes taken as UTF-8
to_str(val) == IF ~val[3] THEN Err(Utf8Error) ELSE Ok(val[2])

\* String::from(JavaStr), the `.into()`: the modified UTF-8 bytes decoded
into_String(val) == val[2]

\* JNIEnv::get_list(obj)?: the null check, then the lookup of the List class
\* and its methods (checked JNI calls)
get_list(obj) ==
  IF IsNull(obj) THEN Err(JniError("NullPtr"))
  ELSE IF exception_check THEN Err(JavaException(exception))
  ELSE Ok(obj)

\* JNIEnv::get_array_length(&array)?
get_array_length(array) ==
  IF IsNull(array) THEN Err(JniError("NullPtr")) ELSE Ok(Len(ValOf(array)))

\* JNIEnv::get_object_array_element(&array, i)?: a checked JNI call
get_object_array_element(array, i) ==
  IF exception_check THEN Err(JavaException(exception)) ELSE Ok(ValOf(array)[i + 1])

\* JList::size: List.size() through its method id
JList_size(obj) ==
  IF IsNull(obj) THEN Step(Err(JniError("NullPtr")), <<>>)
  ELSE Step(Ok(Len(ValOf(obj))), <<"size">>)

\* JListIter::next once current < size: List.get(current)
JList_get(obj, idx) == Step(Ok(ValOf(obj)[idx + 1]), <<"List.get">>)

(***************************************************************************)
(* Collection extractors                                                   *)
(***************************************************************************)
\* get_integers_loop stopping at a failing element with what it has so far
RECURSIVE get_integers_loop_partial(_, _, _, _, _)
get_integers_loop_partial(obj, current, size, results, log) ==
  IF current = size THEN Step(Ok(results), log)
  ELSE
    LET elem == JList_get(obj, current)
        int_obj == call_method(elem.res.val, "intValue", "()I")
        log2 == log \o elem.log \o int_obj.log
    IN  IF ~int_obj.res.ok THEN Step(Ok(results), log2)
        ELSE get_integers_loop_partial(obj, current + 1, size,
                                       Append(results, int_obj.res.val), log2)

\* get_integers_loop pushing each value at the front of the vector
RECURSIVE get_integers_loop_reordered(_, _, _, _, _)
get_integers_loop_reordered(obj, current, size, results, log) ==
  IF current = size THEN Step(Ok(results), log)
  ELSE
    LET elem == JList_get(obj, current)
        int_obj == call_method(elem.res.val, "intValue", "()I")
        log2 == log \o elem.log \o int_obj.log
    IN  IF ~int_obj.res.ok THEN Step(int_obj.res, log2)
        ELSE get_integers_loop_reordered(obj, current + 1, size,
                                         <<int_obj.res.val>> \o results, log2)

RECURSIVE get_integers_loop(_, _, _, _, _)
get_integers_loop(obj, current, size, results, log) ==
  IF current = size THEN Step(Ok(results), log)
  ELSE
    LET elem == JList_get(obj, current)
        int_obj == call_method(elem.res.val, "intValue", "()I")
        log2 == log \o elem.log \o int_obj.log
    IN  IF ~int_obj.res.ok THEN Step(int_obj.res, log2)
        ELSE get_integers_loop(obj, current + 1, size,
                               Append(results, int_obj.res.val), log2)

get_integers(obj) ==
  LET list == get_list(obj)
      iter == JList_size(obj)
      capacity == JList_size(obj)
  IN  IF ~list.ok THEN Step(list, <<>>)
      ELSE IF ~iter.res.ok THEN iter
      ELSE get_integers_loop(obj, 0, iter.res.val, <<>>, iter.log \o capacity.log)

RECURSIVE get_longs_loop(_, _, _, _, _)
get_longs_loop(obj, current, size, results, log) ==
  IF current = size THEN Step(Ok(results), log)
  ELSE
    LET elem == JList_get(obj, current)
        long_obj == call_method(elem.res.val, "longValue", "()J")
        log2 == log \o elem.log \o long_obj.log
    IN  IF ~long_obj.res.ok THEN Step(long_obj.res, log2)
        ELSE get_longs_loop(obj, current + 1, size,
                            Append(results, long_obj.res.val), log2)

get_longs(obj) ==
  LET list == get_list(obj)
      iter == JList_size(obj)
      capacity == JList_size(obj)
  IN  IF ~list.ok THEN Step(list, <<>>)
      ELSE IF ~iter.res.ok THEN iter
      ELSE get_longs_loop(obj, 0, iter.res.val, <<>>, iter.log \o capacity.log)

RECURSIVE get_strings_loop(_, _, _, _, _)
get_strings_loop(obj, current, size, results, log) ==
  IF current = size THEN Step(Ok(results), log)
  ELSE
    LET elem == JList_get(obj, current)
        val == get_string(elem.res.val)
        log2 == log \o elem.log
    IN  IF ~val.ok THEN Step(val, log2)
        ELSE LET str == to_str(val.val)
             IN  IF ~str.ok THEN Step(str, log2)
                 ELSE get_strings_loop(obj, current + 1, size,
                                       Append(results, str.val), log2)

RECURSIVE get_strings_array_loop(_, _, _, _)
get_strings_array_loop(jobject_array, i, array_len, res) ==
  IF i = array_len THEN Step(Ok(res), <<>>)
  ELSE
    LET item == get_object_array_element(jobject_array, i)
    IN  IF ~item.ok THEN Step(item, <<>>)
        ELSE LET val == get_string(item.val)
             IN  IF ~val.ok THEN Step(val, <<>>)
                 ELSE get_strings_array_loop(jobject_array, i + 1, array_len,
                                             Append(res, into_String(val.val)))

get_strings_array(obj) ==
  LET array_len == get_array_length(obj)
  IN  IF ~array_len.ok THEN Step(array_len, <<>>)
      ELSE get_strings_array_loop(obj, 0, array_len.val, <<>>)

get_strings(obj) ==
  LET list == get_list(obj)
      iter == JList_size(obj)
      capacity == JList_size(obj)
  IN  IF ~list.ok THEN Step(list, <<>>)
      ELSE IF ~iter.res.ok THEN iter
      ELSE get_strings_loop(obj, 0, iter.res.val, <<>>, iter.log \o capacity.log)

(*****************************************************************************)
(* Closures (FnOnce) handed to get_optional and get_optional_from_method.    *)
(* get_optional hands its closure the Optional itself; the closure calls get. *)
(*****************************************************************************)
get_string_opt_closure(inner_obj) ==
  LET java_obj_gen == call_method(inner_obj, "get", "()Ljava/lang/Object;")
  IN  IF ~java_obj_gen.res.ok THEN java_obj_gen
      ELSE LET val == get_string(java_obj_gen.res.val)
           IN  IF ~val.ok THEN Step(val, java_obj_gen.log)
               ELSE Step(to_str(val.val), java_obj_gen.log)

get_strings_opt_closure(inner_obj) ==
  LET java_obj_gen == call_method(inner_obj, "get", "()Ljava/lang/Object;")
  IN  IF ~java_obj_gen.res.ok THEN java_obj_gen
      ELSE LET r == get_strings(java_obj_gen.res.val)
           IN  Step(r.res, java_obj_gen.log \o r.log)

get_int_opt_closure(inner_obj) ==
  LET java_obj_gen == call_method(inner_obj, "get", "()Ljava/lang/Object;")
  IN  IF ~java_obj_gen.res.ok THEN java_obj_gen
      ELSE LET int_obj == call_method(java_obj_gen.res.val, "intValue", "()I")
           IN  Step(int_obj.res, java_obj_gen.log \o int_obj.log)

get_ints_opt_closure(inner_obj) ==
  LET java_obj_gen == call_method(inner_obj, "get", "()Ljava/lang/Object;")
  IN  IF ~java_obj_gen.res.ok THEN java_obj_gen
      ELSE LET r == get_integers(java_obj_gen.res.val)
           IN  Step(r.res, java_obj_gen.log \o r.log)

get_long_opt_closure(inner_obj) ==
  LET java_obj_gen == call_method(inner_obj, "get", "()Ljava/lang/Object;")
  IN  IF ~java_obj_gen.res.ok THEN java_obj_gen
      ELSE LET long_obj == call_method(java_obj_gen.res.val, "longValue", "()J")
           IN  Step(long_obj.res, java_obj_gen.log \o long_obj.log)

\* a saturating conversion in place of `as u64`
AsU64_saturating(w) == IF w[1] < 0 THEN <<0, 0, 0, 0>> ELSE w

\* `long_value as u64`: the same 64 bits read as unsigned, i.e. v mod 2^64
AsU64(w) == <<w[1] % Base, w[2], w[3], w[4]>>

get_u64_opt_closure(inner_obj) ==
  LET java_obj_gen == call_method(inner_obj, "get", "()Ljava/lang/Object;")
  IN  IF ~java_obj_gen.res.ok THEN java_obj_gen
      ELSE LET long_obj == call_method(java_obj_gen.res.val, "longValue", "()J")
               log2 == java_obj_gen.log \o long_obj.log
           IN  IF ~long_obj.res.ok THEN Step(long_obj.res, log2)
               ELSE Step(Ok(AsU64(long_obj.res.val)), log2)

(*****************************************************************************)
(* Buffer bridge.  A borrowed view &[u8] is [addr, len] over the memory      *)
(* the managed runtime owns.                                                 *)
(*****************************************************************************)
\* JNIEnv::get_direct_buffer_address: null for anything but a direct buffer
get_direct_buffer_address(buf) ==
  IF IsNull(buf) THEN Err(JniError("NullPtr"))
  ELSE IF KindOf(buf) # "ByteBuffer" \/ ~buf[5] THEN Err(JniError("NullPtr"))
  ELSE Ok(buf[2])

\* JNIEnv::get_direct_buffer_capacity
get_direct_buffer_capacity(buf) ==
  IF IsNull(buf) THEN Err(JniError("NullPtr"))
  ELSE IF KindOf(buf) # "ByteBuffer" \/ ~buf[5] THEN Err(JniError("JniCall"))
  ELSE Ok(buf[3])

\* slice::from_raw_parts(raw_data, capacity)
from_raw_parts(raw_data, capacity) == [addr |-> raw_data, len |-> capacity]

get_bytes_opt_closure(inner_obj) ==
  LET java_obj_gen == call_method(inner_obj, "get", "()Ljava/lang/Object;")
  IN  IF ~java_obj_gen.res.ok THEN java_obj_gen
      ELSE
        LET j_byte_buffer == java_obj_gen.res.val
            raw_data == get_direct_buffer_address(j_byte_buffer)
            capacity == get_direct_buffer_capacity(j_byte_buffer)
        IN  IF ~raw_data.ok THEN Step(raw_data, java_obj_gen.log)
            ELSE IF ~capacity.ok THEN Step(capacity, java_obj_gen.log)
            ELSE Step(Ok(from_raw_parts(raw_data.val, capacity.val)), java_obj_gen.log)

JDescriptor(fails, error) == <<"Descriptor", fails, error>>

\* the external descriptor decoder: one decoding pass that succeeds or fails
decode_descriptor(obj) ==
  IF IsNull(obj) THEN Step(Err(JniError("NullPtr")), <<>>)
  ELSE IF KindOf(obj) # "Descriptor" THEN Step(Err(JniError("MethodNotFound")), <<>>)
  ELSE IF obj[2] THEN Step(Err(obj[3]), <<"decode">>)
  ELSE Step(Ok("decoded"), <<"decode">>)

get_query_closure(inner_obj) ==
  LET java_obj_gen == call_method(inner_obj, "get", "()Ljava/lang/Object;")
  IN  IF ~java_obj_gen.res.ok THEN java_obj_gen
      ELSE LET r == decode_descriptor(java_obj_gen.res.val)
           IN  Step(r.res, java_obj_gen.log \o r.log)

\* a caller's closure for get_optional_from_method: the inner String as text
string_closure(inner_obj) ==
  LET val == get_string(inner_obj)
  IN  IF ~val.ok THEN Step(val, <<>>) ELSE Step(to_str(val.val), <<>>)

\* f(env, obj): the closure named f applied once
call_once(f, obj) ==
  CASE f = "get_string_opt" -> get_string_opt_closure(obj)
    [] f = "get_strings_opt" -> get_strings_opt_closure(obj)
    [] f = "get_int_opt" -> get_int_opt_closure(obj)
    [] f = "get_ints_opt" -> get_ints_opt_closure(obj)
    [] f = "get_long_opt" -> get_long_opt_closure(obj)
    [] f = "get_u64_opt" -> get_u64_opt_closure(obj)
    [] f = "get_bytes_opt" -> get_bytes_opt_closure(obj)
    [] f = "get_query" -> get_query_closure(obj)
    [] f = "string" -> string_closure(obj)

(*****************************************************************************)
(* Optional extractors                                                       *)
(*****************************************************************************)
\* get_optional without the null relaxation
get_optional_no_null_check(obj, f) ==
  LET is_present == call_method(obj, "isPresent", "()Z")
  IN  IF ~is_present.res.ok THEN is_present
      ELSE IF is_present.res.val
      THEN LET r == call_once(f, obj)
           IN  Step((IF r.res.ok THEN Ok(Some(r.res.val)) ELSE r.res),
                    is_present.log \o r.log)
      ELSE Step(Ok(None), is_present.log)

\* get_optional unwrapping without asking isPresent
get_optional_unchecked(obj, f) ==
  IF IsNull(obj) THEN Step(Ok(None), <<>>)
  ELSE LET r == call_once(f, obj)
       IN  Step((IF r.res.ok THEN Ok(Some(r.res.val)) ELSE r.res), r.log)

get_optional(obj, f) ==
  IF IsNull(obj) THEN Step(Ok(None), <<>>)
  ELSE
    LET is_present == call_method(obj, "isPresent", "()Z")
    IN  IF ~is_present.res.ok THEN is_present
        ELSE IF is_present.res.val
        THEN LET r == call_once(f, obj)
             IN  Step((IF r.res.ok THEN Ok(Some(r.res.val)) ELSE r.res),
                      is_present.log \o r.log)
        ELSE Step(Ok(None), is_present.log)

get_string_opt(obj) == get_optional(obj, "get_string_opt")

get_strings_opt(obj) == get_optional(obj, "get_strings_opt")

get_int_opt(obj) == get_optional(obj, "get_int_opt")

get_ints_opt(obj) == get_optional(obj, "get_ints_opt")

get_long_opt(obj) == get_optional(obj, "get_long_opt")

get_u64_opt(obj) == get_optional(obj, "get_u64_opt")

get_bytes_opt(obj) == get_optional(obj, "get_bytes_opt")

(*****************************************************************************)
(* Method-based extractors and narrowing conversions                         *)
(*****************************************************************************)
get_string_from_method(obj, method_name) ==
  LET string_obj == call_method(obj, method_name, "()Ljava/lang/String;")
  IN  IF ~string_obj.res.ok THEN string_obj
      ELSE LET rust_string == get_string(string_obj.res.val)
           IN  IF ~rust_string.ok THEN Step(rust_string, string_obj.log)
               ELSE Step(Ok(into_String(rust_string.val)), string_obj.log)

\* JNIEnv::get_float_array_region(&array, 0, &mut buffer)?: copies the array's
\* elements over the buffer's
get_float_array_region(array, buffer) ==
  [i \in 1 .. Len(buffer) |-> ValOf(array)[i]]

get_vec_f32_from_method(obj, method_name) ==
  LET array == call_method(obj, method_name, "()[F")
  IN  IF ~array.res.ok THEN array
      ELSE LET length == get_array_length(array.res.val)
           IN  IF ~length.ok THEN Step(length, array.log)
               ELSE LET buffer == [i \in 1 .. length.val |-> 0]
                    IN  Step(Ok(get_float_array_region(array.res.val, buffer)),
                             array.log)

get_boolean_from_method(obj, method_name) == call_method(obj, method_name, "()Z")

\* `v as usize` on a 64-bit target: sign-extend to 64 bits, read as unsigned
AsUsize(v) == AsU64(IntToLong(v))

get_int_as_usize_from_method(obj, method_name) ==
  LET r == call_method(obj, method_name, "()I")
  IN  IF ~r.res.ok THEN r ELSE Step(Ok(AsUsize(r.res.val)), r.log)

\* `inner_value as T` in place of T::try_from(inner_value)
try_from_as_cast(T, inner_value) ==
  CASE T = "usize" -> Ok(AsUsize(inner_value))
    [] OTHER -> Ok(inner_value)

\* T::try_from(inner_value) for T among i32, u32, usize
try_from(T, inner_value) ==
  CASE T = "i32" -> Ok(inner_value)
    [] T = "u32" -> IF inner_value < 0 THEN Err("TryFromIntError") ELSE Ok(inner_value)
    [] T = "usize" -> IF inner_value < 0 THEN Err("TryFromIntError")
                      ELSE Ok(AsUsize(inner_value))

get_optional_integer_from_method(obj, method_name, T) ==
  LET java_object == call_method(obj, method_name, "()Ljava/util/Optional;")
  IN  IF ~java_object.res.ok THEN java_object
      ELSE
        LET is_present == call_method(java_object.res.val, "isPresent", "()Z")
            log1 == java_object.log \o is_present.log
        IN  IF ~is_present.res.ok THEN Step(is_present.res, log1)
            ELSE IF is_present.res.val
            THEN
              LET inner_jobj == call_method(java_object.res.val, "get", "()Ljava/lang/Object;")
                  log2 == log1 \o inner_jobj.log
              IN  IF ~inner_jobj.res.ok THEN Step(inner_jobj.res, log2)
                  ELSE
                    LET inner_value == call_method(inner_jobj.res.val, "intValue", "()I")
                        log3 == log2 \o inner_value.log
                    IN  IF ~inner_value.res.ok THEN Step(inner_value.res, log3)
                        ELSE
                          LET c == try_from(T, inner_value.res.val)
                          IN  IF ~c.ok
                              THEN Step(Err(ConversionError(c.err)), log3)
                              ELSE Step(Ok(Some(c.val)), log3)
            ELSE Step(Ok(None), log1)

get_optional_i32_from_method(obj, method_name) ==
  get_optional_integer_from_method(obj, method_name, "i32")

get_optional_u32_from_method(obj, method_name) ==
  get_optional_integer_from_method(obj, method_name, "u32")

get_optional_usize_from_method(obj, method_name) ==
  get_optional_integer_from_method(obj, method_name, "usize")

get_optional_from_method(obj, method_name, f) ==
  LET optional_obj == call_method(obj, method_name, "()Ljava/util/Optional;")
  IN  IF ~optional_obj.res.ok THEN optional_obj
      ELSE
        LET is_present == call_method(optional_obj.res.val, "isPresent", "()Z")
            log1 == optional_obj.log \o is_present.log
        IN  IF ~is_present.res.ok THEN Step(is_present.res, log1)
            ELSE IF is_present.res.val
            THEN
              LET inner_obj == call_method(optional_obj.res.val, "get", "()Ljava/lang/Object;")
                  log2 == log1 \o inner_obj.log
              IN  IF ~inner_obj.res.ok THEN Step(inner_obj.res, log2)
                  ELSE LET r == call_once(f, inner_obj.res.val)
                       IN  Step((IF r.res.ok THEN Ok(Some(r.res.val)) ELSE r.res),
                                log2 \o r.log)
            ELSE Step(Ok(None), log1)

(*****************************************************************************)
(* Error-to-exception adapter and boundary entry points                      *)
(*****************************************************************************)
\* ok_or_throw_without_return!(env, result): on Err throw the error's kind
\* into the calling frame and return; on Ok fall through.  Both return.
\* When the extraction left a managed exception pending, that exception is
\* the one the calling frame receives: a throw is a checked JNI call and does
\* not replace it.
ok_or_throw_without_return(r) ==
  [res |-> r.res, log |-> r.log,
   exception |-> IF r.res.ok THEN NoException
                 ELSE IF r.res.err.pending # NoException THEN r.res.err.pending
                 ELSE r.res.err.kind]

get_query(query_obj) == get_optional(query_obj, "get_query")

get_index_params(index_params_obj) == decode_descriptor(index_params_obj)

\* parseInts dropping the extraction's result
parseInts_swallow(list_obj) ==
  LET r == get_integers(list_obj)
  IN  [res |-> r.res, log |-> r.log, exception |-> NoException]

parseInts(list_obj) == ok_or_throw_without_return(get_integers(list_obj))

parseLongs(list_obj) == ok_or_throw_without_return(get_longs(list_obj))

parseIntsOpt(list_obj) == ok_or_throw_without_return(get_ints_opt(list_obj))

parseQuery(query_opt) == ok_or_throw_without_return(get_query(query_opt))

parseIndexParams(index_params_obj) ==
  ok_or_throw_without_return(get_index_params(index_params_obj))

(***************************************************************************)
(* Inputs                                                                  *)
(***************************************************************************)
RECURSIVE SeqsUpTo(_, _)
SeqsUpTo(S, n) ==
  IF n = 0 THEN {<<>>}
  ELSE LET shorter == SeqsUpTo(S, n - 1)
       IN  shorter \cup {Append(q, x) : q \in {t \in shorter : Len(t) = n - 1}, x \in S}

I32Vals == {I32Min, -1, 0, 1, I32Max}
I64Vals == {I64Min, I64MinusOne, U64Zero, I64Lit(5), I64Max, <<-1, 0, 0, 0>>}

\* A reference declared List or Optional is of that class or null, as the
\* managed signatures (List<Integer>, Optional<..>) guarantee; what the list or
\* the Optional holds is unchecked at run time, since generics are erased.
\* What a List<Integer> or List<Long> can hold:
NumberElems == {JInteger(-1), JInteger(I32Max), JLong(I64Min), JLong(I64Lit(5)),
                JString("a", TRUE), Null}
StringElems == {JString("a", TRUE), JString("b", TRUE), JString("c", FALSE),
                JInteger(1), Null}

NumberLists == {JList(q) : q \in SeqsUpTo(NumberElems, MaxLen)}
StringLists == {JList(q) : q \in SeqsUpTo(StringElems, MaxLen)}

OptionalsOf(S) == {Null, JOptional(Null)} \cup {JOptional(x) : x \in S}

Scalars == {JInteger(v) : v \in I32Vals} \cup {JLong(w) : w \in I64Vals}
             \cup {JString("a", TRUE), JString("c", FALSE)}

Addrs == 0 .. MemSize - 1
ByteVals == {0, 255}
Buffers == {JByteBuffer(a, c, l, d) :
              a \in Addrs, c \in 0 .. MemSize, l \in 0 .. MemSize, d \in BOOLEAN}
DirectBuffers == {b \in Buffers : b[2] + b[3] <= MemSize /\ b[4] <= b[3] /\ b[5]}
HeapBuffers == {b \in Buffers : b[2] = 0 /\ b[4] = b[3] /\ ~b[5]}

IntHolders == {Null} \cup {JHolder("getK", "()I", v) : v \in I32Vals}
                \cup {JHolder("getNprobes", "()I", 1), JHolder("getK", "()J", I64Lit(5))}
OptionalIntHolders ==
  {Null, JHolder("getK", "()I", 1)}
    \cup {JHolder("getEf", "()Ljava/util/Optional;", o) :
            o \in OptionalsOf({JInteger(v) : v \in I32Vals} \cup {JString("a", TRUE)})}
OptionalStringHolders ==
  {Null} \cup {JHolder("getEf", "()Ljava/util/Optional;", o) :
                 o \in OptionalsOf({JString("a", TRUE), JString("c", FALSE), JInteger(1)})}

StringHolders ==
  {Null, JHolder("getK", "()I", 1)}
    \cup {JHolder("getS", "()Ljava/lang/String;", t) :
            t \in {Null, JString("a", TRUE), JString("c", FALSE)}}
\* f32 values, 0.0 and 1.0
F32Vals == {0, 1}
FloatHolders ==
  {Null, JHolder("getK", "()I", 1), JHolder("getF", "()[F", Null)}
    \cup {JHolder("getF", "()[F", JFloatArray(q)) : q \in SeqsUpTo(F32Vals, MaxLen)}
BooleanHolders ==
  {Null, JHolder("getK", "()I", 1)} \cup {JHolder("isB", "()Z", b) : b \in BOOLEAN}
\* a String[] holds Strings and nulls only: array stores are checked
StringArrays ==
  {Null} \cup {JObjectArray(q) :
                 q \in SeqsUpTo({JString("a", TRUE), JString("c", FALSE), Null}, MaxLen)}

Descriptors == {JDescriptor(FALSE, Utf8Error)}
                 \cup {JDescriptor(TRUE, e) :
                         e \in {JniError("MethodNotFound"), Utf8Error,
                                ConversionError("TryFromIntError")}}

(***************************************************************************)
(* State machine: one extraction or boundary call at a time, over the      *)
(* managed runtime's direct-buffer memory and the pending exception of the *)
(* native frame the extractors run in.                                     *)
(***************************************************************************)
\* pc        "idle", "done" (an extractor has run) or "returned" (an entry point
\*           has returned to the managed frame)
\* op, arg   the extractor or entry point that ran, and its managed argument
\* result    the Result of the extraction
\* log       the managed methods the call invoked, in order
\* entry     the exception that was pending when the call started
\* mem       the bytes of direct-buffer memory, owned by the managed runtime
\* loaded    for each address, the bytes native code has read from it through
\*           the view the call returned
\* read      the last read through the view the call returned: index, byte
\*           read, and the buffer's byte then
VARIABLES pc, op, arg, result, log, entry, mem, loaded, read

vars == <<pc, op, arg, result, log, exception, entry, mem, loaded, read>>

NoResult == [pending |-> TRUE]
NoRead == [at |-> -1, val |-> 0, actual |-> 0]

Init ==
  /\ pc = "idle"
  /\ op = "none"
  /\ arg = Null
  /\ result = NoResult
  /\ log = <<>>
  /\ exception = NoException
  /\ entry = NoException
  /\ mem = [a \in Addrs |-> 0]
  /\ loaded = [a \in Addrs |-> {}]
  /\ read = NoRead

\* the state once extractor o has run to completion on argument a: an
\* exception the call raised is pending, and so is one that was pending before
Finish(o, a, r) ==
  /\ pc' = "done"
  /\ op' = o
  /\ arg' = a
  /\ result' = r.res
  /\ log' = r.log
  /\ exception' = (IF ~r.res.ok /\ r.res.err.pending # NoException
                    THEN r.res.err.pending ELSE exception)
  /\ entry' = exception
  /\ loaded' = [x \in Addrs |-> {}]
  /\ read' = NoRead
  /\ UNCHANGED mem

\* the state once entry point o, called from managed code, has run on a and
\* returned to the managed frame
ReturnToJava(o, a, r) ==
  /\ pc' = "returned"
  /\ op' = o
  /\ arg' = a
  /\ result' = r.res
  /\ log' = r.log
  /\ exception' = r.exception
  /\ entry' = exception
  /\ loaded' = [x \in Addrs |-> {}]
  /\ read' = NoRead
  /\ UNCHANGED mem

Call_get_integers ==
  /\ pc = "idle"
  /\ \E a \in {Null} \cup NumberLists :
       Finish("get_integers", a, get_integers(a))

Call_get_longs ==
  /\ pc = "idle"
  /\ \E a \in {Null} \cup NumberLists :
       Finish("get_longs", a, get_longs(a))

Call_get_strings ==
  /\ pc = "idle"
  /\ \E a \in {Null} \cup StringLists :
       Finish("get_strings", a, get_strings(a))

Call_get_string_opt ==
  /\ pc = "idle"
  /\ \E a \in OptionalsOf(Scalars) :
       Finish("get_string_opt", a, get_string_opt(a))

Call_get_strings_opt ==
  /\ pc = "idle"
  /\ \E a \in OptionalsOf(StringLists) :
       Finish("get_strings_opt", a, get_strings_opt(a))

Call_get_int_opt ==
  /\ pc = "idle"
  /\ \E a \in OptionalsOf(Scalars) :
       Finish("get_int_opt", a, get_int_opt(a))

Call_get_ints_opt ==
  /\ pc = "idle"
  /\ \E a \in OptionalsOf(NumberLists) :
       Finish("get_ints_opt", a, get_ints_opt(a))

Call_get_long_opt ==
  /\ pc = "idle"
  /\ \E a \in OptionalsOf(Scalars) :
       Finish("get_long_opt", a, get_long_opt(a))

Call_get_u64_opt ==
  /\ pc = "idle"
  /\ \E a \in OptionalsOf(Scalars) :
       Finish("get_u64_opt", a, get_u64_opt(a))

Call_get_bytes_opt ==
  /\ pc = "idle"
  /\ \E a \in OptionalsOf(DirectBuffers \cup HeapBuffers \cup {JString("a", TRUE)}) :
       Finish("get_bytes_opt", a, get_bytes_opt(a))

Call_get_strings_array ==
  /\ pc = "idle"
  /\ \E a \in StringArrays :
       Finish("get_strings_array", a, get_strings_array(a))

Call_get_string_from_method ==
  /\ pc = "idle"
  /\ \E a \in StringHolders :
       Finish("get_string_from_method", a, get_string_from_method(a, "getS"))

Call_get_vec_f32_from_method ==
  /\ pc = "idle"
  /\ \E a \in FloatHolders :
       Finish("get_vec_f32_from_method", a, get_vec_f32_from_method(a, "getF"))

Call_get_boolean_from_method ==
  /\ pc = "idle"
  /\ \E a \in BooleanHolders :
       Finish("get_boolean_from_method", a, get_boolean_from_method(a, "isB"))

Call_get_int_as_usize_from_method ==
  /\ pc = "idle"
  /\ \E a \in IntHolders :
       Finish("get_int_as_usize_from_method", a, get_int_as_usize_from_method(a, "getK"))

Call_get_optional_i32_from_method ==
  /\ pc = "idle"
  /\ \E a \in OptionalIntHolders :
       Finish("get_optional_i32_from_method", a, get_optional_i32_from_method(a, "getEf"))

Call_get_optional_u32_from_method ==
  /\ pc = "idle"
  /\ \E a \in OptionalIntHolders :
       Finish("get_optional_u32_from_method", a, get_optional_u32_from_method(a, "getEf"))

Call_get_optional_usize_from_method ==
  /\ pc = "idle"
  /\ \E a \in OptionalIntHolders :
       Finish("get_optional_usize_from_method", a, get_optional_usize_from_method(a, "getEf"))

Call_get_optional_from_method ==
  /\ pc = "idle"
  /\ \E a \in OptionalStringHolders :
       Finish("get_optional_from_method", a, get_optional_from_method(a, "getEf", "string"))

Java_parseInts ==
  /\ pc = "idle"
  /\ exception = NoException
  /\ \E a \in {Null} \cup NumberLists :
       ReturnToJava("parseInts", a, parseInts(a))

Java_parseLongs ==
  /\ pc = "idle"
  /\ exception = NoException
  /\ \E a \in {Null} \cup NumberLists :
       ReturnToJava("parseLongs", a, parseLongs(a))

Java_parseIntsOpt ==
  /\ pc = "idle"
  /\ exception = NoException
  /\ \E a \in OptionalsOf(NumberLists) :
       ReturnToJava("parseIntsOpt", a, parseIntsOpt(a))

Java_parseQuery ==
  /\ pc = "idle"
  /\ exception = NoException
  /\ \E a \in OptionalsOf(Descriptors) :
       ReturnToJava("parseQuery", a, parseQuery(a))

Java_parseIndexParams ==
  /\ pc = "idle"
  /\ exception = NoException
  /\ \E a \in {Null} \cup Descriptors :
       ReturnToJava("parseIndexParams", a, parseIndexParams(a))

\* the managed side writes a byte of direct-buffer memory; only a view made by
\* get_bytes_opt can observe it while a call's values are alive
JavaPut ==
  /\ pc = "idle" \/ op = "get_bytes_opt"
  /\ \E a \in Addrs, b \in ByteVals :
       /\ mem[a] # b
       /\ mem' = [mem EXCEPT ![a] = b]
  /\ UNCHANGED <<pc, op, arg, result, log, exception, entry, loaded, read>>

\* the holder of the view get_bytes_opt returned reads its index i.  The view
\* is a shared slice (&[u8]), which tells the compiler its bytes do not change
\* while it is alive: a write to them by the managed side is undefined
\* behaviour, and a read then gives the byte in memory or, in an optimised
\* build, a byte an earlier read through the view loaded from that address.
ReadView ==
  /\ pc = "done" /\ op = "get_bytes_opt"
  /\ result.ok
  /\ result.val.some
  /\ \E i \in 0 .. result.val.val.len - 1 :
       LET a == result.val.val.addr + i
       IN  \E v \in {mem[a]} \cup loaded[a] :
             /\ read' = [at |-> i, val |-> v, actual |-> mem[a]]
             /\ loaded' = [loaded EXCEPT ![a] = @ \cup {v}]
  /\ UNCHANGED <<pc, op, arg, result, log, exception, entry, mem>>

\* the call's values are dropped.  After an extractor the native frame goes
\* on, and an exception pending in it stays pending; after an entry point the
\* managed frame has received the exception thrown into it.
Return ==
  /\ pc \in {"done", "returned"}
  /\ pc' = "idle"
  /\ op' = "none"
  /\ arg' = Null
  /\ result' = NoResult
  /\ log' = <<>>
  /\ exception' = (IF pc = "returned" THEN NoException ELSE exception)
  /\ entry' = NoException
  /\ loaded' = [x \in Addrs |-> {}]
  /\ read' = NoRead
  /\ UNCHANGED mem

\* the native frame the extractors ran in returns to the managed frame, which
\* receives the exception left pending
FrameReturns ==
  /\ pc = "idle"
  /\ exception # NoException
  /\ exception' = NoException
  /\ UNCHANGED <<pc, op, arg, result, log, entry, mem, loaded, read>>

Next ==
  \/ Call_get_integers
  \/ Call_get_longs
  \/ Call_get_strings
  \/ Call_get_string_opt
  \/ Call_get_strings_opt
  \/ Call_get_int_opt
  \/ Call_get_ints_opt
  \/ Call_get_long_opt
  \/ Call_get_u64_opt
  \/ Call_get_bytes_opt
  \/ Call_get_strings_array
  \/ Call_get_string_from_method
  \/ Call_get_vec_f32_from_method
  \/ Call_get_boolean_from_method
  \/ Call_get_int_as_usize_from_method
  \/ Call_get_optional_i32_from_method
  \/ Call_get_optional_u32_from_method
  \/ Call_get_optional_usize_from_method
  \/ Call_get_optional_from_method
  \/ Java_parseInts
  \/ Java_parseLongs
  \/ Java_parseIntsOpt
  \/ Java_parseQuery
  \/ Java_parseIndexParams
  \/ JavaPut
  \/ ReadView
  \/ Return
  \/ FrameReturns

Spec == Init /\ [][Next]_vars

TypeOK ==
  /\ pc \in {"idle", "done", "returned"}
  /\ entry \in {NoException, "java.lang.NoSuchMethodError"}
  /\ pc = "done" => exception \in {NoException, "java.lang.NoSuchMethodError"}
  /\ pc = "returned" => entry = NoException
  /\ mem \in [Addrs -> ByteVals]
  /\ loaded \in [Addrs -> SUBSET ByteVals]
  /\ pc # "done" => \A a \in Addrs : loaded[a] = {}
  /\ read.at \in -1 .. MemSize - 1
  /\ pc # "idle" => result.ok \in BOOLEAN /\ log \in Seq(STRING)

(***************************************************************************)
(* Properties                                                              *)
(***************************************************************************)
\* how many times method m was invoked
Count(m) == Cardinality({i \in 1 .. Len(log) : log[i] = m})
\* every invocation of m1 precedes every invocation of m2
Before(m1, m2) ==
  \A i, j \in 1 .. Len(log) : (log[i] = m1 /\ log[j] = m2) => i < j

\* the call was made with no exception pending, as JNI requires of a caller
CalledClean == entry = NoException

AllOfKind(list, kind) == \A i \in 1 .. Len(ValOf(list)) : KindOf(ValOf(list)[i]) = kind

\* C1: get_integers on a List<Integer> and get_longs on a List<Long>, called
\* with no exception pending, return a vector as long as the list whose i-th
\* element is the value of the list's i-th element: nothing dropped,
\* duplicated or reordered.
C1_ListOrderPreserved ==
  /\ (pc = "done" /\ op = "get_integers" /\ CalledClean
        /\ ~IsNull(arg) /\ AllOfKind(arg, "Integer"))
       => /\ result.ok
          /\ Len(result.val) = Len(ValOf(arg))
          /\ \A i \in 1 .. Len(ValOf(arg)) : result.val[i] = ValOf(ValOf(arg)[i])
  /\ (pc = "done" /\ op = "get_longs" /\ CalledClean
        /\ ~IsNull(arg) /\ AllOfKind(arg, "Long"))
       => /\ result.ok
          /\ Len(result.val) = Len(ValOf(arg))
          /\ \A i \in 1 .. Len(ValOf(arg)) : result.val[i] = ValOf(ValOf(arg)[i])

C1_Witness ==
  /\ pc = "done" /\ op = "get_integers" /\ CalledClean /\ ~IsNull(arg) /\ AllOfKind(arg, "Integer")
  /\ Len(ValOf(arg)) >= 2
  /\ ValOf(arg)[1] # ValOf(arg)[2]
  /\ result.ok /\ Len(result.val) = Len(ValOf(arg))

OptOps == {"get_string_opt", "get_strings_opt", "get_int_opt", "get_ints_opt",
           "get_long_opt", "get_u64_opt", "get_bytes_opt"}

IsNumber(e) == KindOf(e) \in {"Integer", "Long"}
IntOf(e) == IF KindOf(e) = "Integer" THEN ValOf(e) ELSE LongToInt(ValOf(e))
LongOf(e) == IF KindOf(e) = "Long" THEN ValOf(e) ELSE IntToLong(ValOf(e))
IsText(e) == KindOf(e) = "String" /\ e[3]

\* the inner object is one the extractor o can unwrap
InnerOk(o, inner) ==
  CASE o = "get_string_opt" -> IsText(inner)
    [] o = "get_strings_opt" -> \A i \in 1 .. Len(ValOf(inner)) : IsText(ValOf(inner)[i])
    [] o \in {"get_int_opt", "get_long_opt", "get_u64_opt"} -> IsNumber(inner)
    [] o = "get_ints_opt" -> \A i \in 1 .. Len(ValOf(inner)) : IsNumber(ValOf(inner)[i])
    [] o = "get_bytes_opt" -> KindOf(inner) = "ByteBuffer" /\ inner[5]

\* the native value of the inner object
Unwrapped(o, inner) ==
  CASE o = "get_string_opt" -> inner[2]
    [] o = "get_strings_opt" -> [i \in 1 .. Len(ValOf(inner)) |-> ValOf(inner)[i][2]]
    [] o = "get_int_opt" -> IntOf(inner)
    [] o = "get_long_opt" -> LongOf(inner)
    [] o = "get_u64_opt" ->
         LET w == LongOf(inner)
         IN  <<(IF w[1] < 0 THEN w[1] + Base ELSE w[1]), w[2], w[3], w[4]>>
    [] o = "get_ints_opt" -> [i \in 1 .. Len(ValOf(inner)) |-> IntOf(ValOf(inner)[i])]
    [] o = "get_bytes_opt" -> [addr |-> inner[2], len |-> inner[3]]

IsOkNone(r) == r.ok /\ ~r.val.some
IsOkSome(r, v) == r.ok /\ r.val.some /\ r.val.val = v

\* isPresent was invoked on the Optional and returned b
IsPresentReturned(b) ==
  ~IsNull(arg) /\ Count("isPresent") = 1 /\ (~IsNull(ValOf(arg))) = b

\* C2 as stated: a null reference gives Ok(None) with no managed call; when
\* isPresent returns false the result is Ok(None) and get is not invoked; when
\* it returns true get is invoked once, after isPresent, and the result is
\* Some of the unwrapped inner value.
C2_PresentAlwaysSome ==
  (pc = "done" /\ op \in OptOps) =>
    /\ IsNull(arg) => IsOkNone(result) /\ log = <<>>
    /\ (~IsNull(arg) /\ CalledClean) => Count("isPresent") = 1
    /\ IsPresentReturned(FALSE) => IsOkNone(result) /\ Count("get") = 0
    /\ IsPresentReturned(TRUE) =>
         /\ Count("get") = 1 /\ Before("isPresent", "get")
         /\ result.ok
         /\ IsOkSome(result, Unwrapped(op, ValOf(arg)))

\* C2 amended: as above, but when isPresent returns true the result is Some of
\* the unwrapped inner value only when the inner extraction succeeds; when it
\* fails the result is its error.
C2_OptionalProtocol ==
  (pc = "done" /\ op \in OptOps) =>
    /\ IsNull(arg) => IsOkNone(result) /\ log = <<>>
    /\ (~IsNull(arg) /\ CalledClean) => Count("isPresent") = 1
    /\ IsPresentReturned(FALSE) => IsOkNone(result) /\ Count("get") = 0
    /\ IsPresentReturned(TRUE) =>
         /\ Count("get") = 1 /\ Before("isPresent", "get")
         /\ InnerOk(op, ValOf(arg)) => IsOkSome(result, Unwrapped(op, ValOf(arg)))
         /\ ~InnerOk(op, ValOf(arg)) => ~result.ok

C2_Witness ==
  /\ pc = "done" /\ op = "get_ints_opt"
  /\ IsPresentReturned(TRUE)
  /\ Len(ValOf(ValOf(arg))) >= 2
  /\ InnerOk(op, ValOf(arg))
  /\ Count("get") = 1
  /\ result.ok /\ result.val.some

\* a holder whose getEf() returns the Optional o
ReturnsOptional(a) ==
  ~IsNull(a) /\ KindOf(a) = "Holder" /\ a[2] = "getEf" /\ a[3] = "()Ljava/util/Optional;"
\* a holder whose getEf() returns a present Optional<Integer>
HoldsInt(a) ==
  ReturnsOptional(a) /\ ~IsNull(a[4]) /\ KindOf(ValOf(a[4])) = "Integer"
HeldInt(a) == ValOf(ValOf(a[4]))

\* C3: get_optional_u32_from_method, called with no exception pending, on a
\* present Optional<Integer> holding v fails with a conversion error when
\* v < 0 and returns Some(v) when v >= 0.
C3_U32Narrowing ==
  (pc = "done" /\ op = "get_optional_u32_from_method" /\ CalledClean
     /\ HoldsInt(arg)) =>
    /\ HeldInt(arg) < 0 => ~result.ok /\ result.err = ConversionError("TryFromIntError")
    /\ HeldInt(arg) >= 0 => IsOkSome(result, HeldInt(arg))

C3_Witness ==
  /\ pc = "done" /\ op = "get_optional_u32_from_method" /\ CalledClean
  /\ HoldsInt(arg)
  /\ HeldInt(arg) = I32Min
  /\ ~result.ok

EntryPoints == {"parseInts", "parseLongs", "parseIntsOpt", "parseQuery", "parseIndexParams"}

\* the managed calls of the boundary call are those of one extraction
SingleAttempt ==
  /\ Count("size") <= 2
  /\ Count("isPresent") <= 1
  /\ Count("get") <= 1
  /\ Count("decode") <= 1
  /\ op \in {"parseInts", "parseLongs"} /\ ~IsNull(arg) => Count("List.get") <= Len(ValOf(arg))

\* C4: a boundary entry point runs its extraction once, throws a managed
\* exception exactly when the extraction returned an error, and returns
\* normally either way; after a successful extraction nothing is pending.
C4_ThrowIffError ==
  op \in EntryPoints =>
    /\ pc = "returned"
    /\ SingleAttempt
    /\ (exception # NoException) <=> ~result.ok
    /\ result.ok => exception = NoException

C4_Witness ==
  /\ pc = "returned" /\ op = "parseInts"
  /\ ~IsNull(arg) /\ Len(ValOf(arg)) >= 2
  /\ ~result.ok
  /\ exception # NoException

\* C5: a null list reference is rejected with a method-invocation error, the
\* null-pointer error of get_list's null check, before any managed call (and
\* parseInts throws it), while parseIntsOpt and get_ints_opt accept a null
\* reference, and with no exception pending an empty Optional: None, and no
\* exception raised.
C5_NullListRejectedNullOptionalAccepted ==
  /\ (pc # "idle" /\ op \in {"get_integers", "get_longs", "get_strings", "parseInts"}
        /\ IsNull(arg))
       => /\ ~result.ok
          /\ result.err.kind = "MethodInvocation" /\ result.err.detail = "NullPtr"
          /\ log = <<>>
  /\ (pc # "idle" /\ op = "parseInts" /\ IsNull(arg)) => exception = "MethodInvocation"
  /\ (pc # "idle" /\ op \in {"get_ints_opt", "parseIntsOpt"} /\ IsNull(arg))
       => IsOkNone(result) /\ exception = entry
  /\ (pc # "idle" /\ op \in {"get_ints_opt", "parseIntsOpt"} /\ CalledClean
        /\ ~IsNull(arg) /\ IsNull(ValOf(arg)))
       => IsOkNone(result) /\ exception = NoException

C5_Witness ==
  /\ pc = "done" /\ op = "get_integers" /\ IsNull(arg)
  /\ entry # NoException
  /\ ~result.ok /\ result.err = JniError("NullPtr")
  /\ exception = entry

ListOps == {"get_integers", "get_longs", "get_strings"}
OptListOps == {"get_ints_opt", "get_strings_opt"}
\* the managed list the call iterates, when there is one
HasList == \/ op \in ListOps /\ ~IsNull(arg)
           \/ op \in OptListOps /\ ~IsNull(arg) /\ ~IsNull(ValOf(arg))
TheList == IF op \in ListOps THEN ValOf(arg) ELSE ValOf(ValOf(arg))
ElemFails(e) ==
  IF op \in {"get_strings", "get_strings_opt"} THEN ~IsText(e) ELSE ~IsNumber(e)
\* the error of extracting the failing element e
ElemError(e) ==
  IF IsNull(e) THEN JniError("NullPtr")
  ELSE IF op \in {"get_integers", "get_longs", "get_ints_opt"}
       THEN JavaException("java.lang.NoSuchMethodError")
  ELSE IF KindOf(e) # "String" THEN JniError("WrongObjectType")
  ELSE Utf8Error
FirstFailure ==
  CHOOSE k \in 1 .. Len(TheList) :
    ElemFails(TheList[k]) /\ \A j \in 1 .. k - 1 : ~ElemFails(TheList[j])

\* C6: in a call made with no exception pending, when the element at position
\* k is the first whose extraction fails, the extraction returns that
\* element's error (no Ok of any kind) and no element after position k is read
\* from the list.
C6_FailFast ==
  (pc = "done" /\ HasList /\ CalledClean /\ \E k \in 1 .. Len(TheList) : ElemFails(TheList[k])) =>
    /\ ~result.ok
    /\ result.err = ElemError(TheList[FirstFailure])
    /\ Count("List.get") = FirstFailure

C6_Witness ==
  /\ pc = "done" /\ op = "get_integers" /\ HasList /\ CalledClean
  /\ Len(TheList) >= 2
  /\ ~ElemFails(TheList[1]) /\ ElemFails(TheList[2])
  /\ ~result.ok

HoldsDirectBuffer(a) ==
  ~IsNull(a) /\ ~IsNull(ValOf(a)) /\ KindOf(ValOf(a)) = "ByteBuffer" /\ ValOf(a)[5]
ViewIsBuffer ==
  /\ result.ok /\ result.val.some
  /\ result.val.val.addr = ValOf(arg)[2]
  /\ result.val.val.len = ValOf(arg)[3]

ReturnsInt(a) == ~IsNull(a) /\ KindOf(a) = "Holder" /\ a[2] = "getK" /\ a[3] = "()I"

\* C8: for a negative i32 from the managed accessor, both
\* get_int_as_usize_from_method and get_optional_usize_from_method, called
\* with no exception pending, return an error, never a usize.
C8_UsizeNarrowingFails ==
  /\ (pc = "done" /\ op = "get_int_as_usize_from_method" /\ CalledClean
        /\ ReturnsInt(arg) /\ arg[4] < 0)
       => ~result.ok
  /\ (pc = "done" /\ op = "get_optional_usize_from_method" /\ CalledClean
        /\ HoldsInt(arg) /\ HeldInt(arg) < 0)
       => ~result.ok

FromMethodOps == {"get_optional_from_method", "get_optional_i32_from_method",
                  "get_optional_u32_from_method", "get_optional_usize_from_method"}

\* the named accessor was invoked and returned the Optional reference arg[4]
AccessorReturned == ReturnsOptional(arg) /\ Count("getEf") = 1

\* C9: when the accessor returns null the result is Ok(None) with neither
\* isPresent nor get invoked; when isPresent returns false the result is
\* Ok(None) without get; when it returns true there is exactly one get, after
\* isPresent.
C9_NullOptionalIsNone ==
  (pc = "done" /\ op \in FromMethodOps) =>
    /\ (ReturnsOptional(arg) /\ CalledClean) => Count("getEf") = 1
    /\ (AccessorReturned /\ IsNull(arg[4])) =>
         IsOkNone(result) /\ Count("isPresent") = 0 /\ Count("get") = 0
    /\ (AccessorReturned /\ ~IsNull(arg[4])) => Count("isPresent") = 1
    /\ (AccessorReturned /\ ~IsNull(arg[4]) /\ IsNull(ValOf(arg[4]))) =>
         IsOkNone(result) /\ Count("get") = 0
    /\ (AccessorReturned /\ ~IsNull(arg[4]) /\ ~IsNull(ValOf(arg[4]))) =>
         Count("get") = 1 /\ Before("isPresent", "get")

HoldsLong(a) == ~IsNull(a) /\ ~IsNull(ValOf(a)) /\ KindOf(ValOf(a)) = "Long"

\* C10: get_u64_opt, called with no exception pending, on a present
\* Optional<Long> holding v always succeeds with Some(v mod 2^64): at least
\* 2^63 when v < 0, equal to v when v >= 0.
C10_U64Reinterprets ==
  (pc = "done" /\ op = "get_u64_opt" /\ CalledClean /\ HoldsLong(arg)) =>
    /\ result.ok /\ result.val.some
    /\ LET v == ValOf(ValOf(arg))
           u == result.val.val
       IN  /\ u[1] \in 0 .. Base - 1
           /\ (u[1] - v[1]) % Base = 0 /\ SubSeq(u, 2, 4) = SubSeq(v, 2, 4)
           /\ IsNegI64(v) => DigitsGeq(u, U64Pow63)
           /\ ~IsNegI64(v) => u = v

C10_Witness ==
  /\ pc = "done" /\ op = "get_u64_opt" /\ CalledClean /\ HoldsLong(arg)
  /\ ValOf(ValOf(arg)) = I64MinusOne
  /\ result.ok /\ result.val.some
  /\ result.val.val = <<Base - 1, Base - 1, Base - 1, Base - 1>>

====
